---- MODULE Spec2Model ----
(***************************************************************************)
(* State-machine model of the rawspeed decompression core:                 *)
(*   - OlympusDecompressor (parseCarry, getPred, decompressRow, decompress)*)
(*   - TableLookUp (constructor, setTable, getTable)                       *)
(*   - FujiDecompressor::FujiStrip geometry and the strip-parallel decode  *)
(*   - AlignedAllocator (allocate, deallocate, alignedFree)                *)
(* Each subsystem has its own specification (SpecOlympus, SpecCarry,       *)
(* SpecTable, SpecFuji, SpecAlloc); the variables of the other subsystems  *)
(* stay at their initial values.                                           *)
(***************************************************************************)
EXTENDS Integers, Sequences, FiniteSets, TLC

VARIABLES
  \* ---- OlympusDecompressor ----
  ophase,    \* "new" | "rejected" | "ready" | "running" | "done" | "error" | "oob"
  oerr,      \* "none" | "RDE" | "IoEof" | "TruncatedBitstream"
  dim,       \* mRaw->dim : [x |-> width, y |-> height]
  ofmt,      \* mRaw's format: [cpp, type, bpp]
  initv,     \* the value every cell holds after the buffer is created
  out,       \* the uncropped u16 image, out[row][col]
  input,     \* the ByteStream handed to decompress (sequence of bytes)
  bitpos,    \* bits consumed from the BitStreamerMSB
  row, col,  \* position of the next sample (loops of decompress/decompressRow)
  acarry,    \* decompressRow's two carry triples, <<even, odd>>
  nbits,     \* nbits of the last parseCarry call
  taken,     \* bits taken by the NoFill operations of the last parseCarry call
  accessed,  \* cells touched by the last sample: getPred's reads and the write
  wlog,      \* the cells written so far, in order
  lastPred,  \* what getPred returned for the last sample
  lastDiff,  \* what parseCarry returned for the last sample
  \* ---- parseCarry on its own (carry reachability) ----
  carry, carryNbits, carryHigh, carryTaken, carrySteps,
  \* ---- TableLookUp ----
  tphase,    \* "new" | "rejected" | "ready" | "oob"
  ntables,   \* TableLookUp::ntables
  dither,    \* TableLookUp::dither
  tables,    \* TableLookUp::tables as ntables rows of TABLE_SIZE entries
  tlast,     \* the last call: [op, n, src, res]
  tcalls,    \* number of setTable/getTable calls made
  \* ---- FujiDecompressor ----
  fphase,    \* "new" | "rejected" | "decoding" | "done" | "abort"
  fhdr,      \* FujiDecompressor::header
  fseed,     \* stands for the content of the strips' byte streams
  fline,     \* per strip: the number of lines (of 6 rows) decoded so far
  fout,      \* the output cells written so far: <<row, col>> -> sample
  fowner,    \* per written cell: the strip that wrote it last
  frace,     \* a cell was written by two different strips
  \* ---- AlignedAllocator ----
  heap,      \* live blocks: pointer -> number of elements
  astatus,   \* "ok" | "abort"
  alast,     \* the last call: [op, p, n, violated, before]
  acalls     \* number of calls made

oVars == <<ophase, oerr, dim, ofmt, initv, out, input, bitpos, row, col, acarry,
           nbits, taken, accessed, wlog, lastPred, lastDiff>>
cVars == <<carry, carryNbits, carryHigh, carryTaken, carrySteps>>
tVars == <<tphase, ntables, dither, tables, tlast, tcalls>>
fVars == <<fphase, fhdr, fseed, fline, fout, fowner, frace>>
aVars == <<heap, astatus, alast, acalls>>
vars == <<oVars, cVars, tVars, fVars, aVars>>

-----------------------------------------------------------------------------
(* Bounds of the model *)

MaxW == 6
MaxH == 4
MaxInputLen == 70
MaxCarrySteps == 7
TableIndexBits == 2
MaxTables == 2
MaxSrcLen == 2
MaxTableCalls == 1
MaxFujiWidth == 4
MaxFujiLines == 2
MaxBlocks == 3
MaxElts == 2
MaxAllocCalls == 5

(* Program constants *)

OlympusMaxW == 10400
OlympusMaxH == 7792
PrefixBytes == 7

Max(a, b) == IF a >= b THEN a ELSE b
Min(a, b) == IF a <= b THEN a ELSE b
Abs(a) == IF a < 0 THEN -a ELSE a
Pow2(n) == 2 ^ n

-----------------------------------------------------------------------------
(* adt/Bit.h helpers used by the decoder *)

RECURSIVE numActiveBits(_)
\* number of bits needed to represent the unsigned value v
numActiveBits(v) == IF v = 0 THEN 0 ELSE 1 + numActiveBits(v \div 2)

\* value >> (effectiveBitwidth - nBits)
extractHighBits(value, nBits, effectiveBitwidth) ==
  value \div Pow2(effectiveBitwidth - nBits)

\* implicit_cast<uint16_t>: truncation to 16 bits
U16(v) == v % 65536

-----------------------------------------------------------------------------
(* BitStreamerMSB over the bytes buf[1..Len(buf)]: bit j (from 0) is bit    *)
(* 7 - j % 8 of byte j \div 8; the bits are handed out MSB first.            *)

StreamBits(buf) == 8 * Len(buf)

RECURSIVE BytesValue(_, _, _)
\* the big-endian value of bytes first..last (numbered from 0)
BytesValue(buf, first, last) ==
  IF last < first THEN 0
  ELSE 256 * BytesValue(buf, first, last - 1) + buf[last + 1]

\* the next n bits from position pos, right-justified
peekBits(buf, pos, n) ==
  IF n = 0 THEN 0
  ELSE LET last == (pos + n - 1) \div 8
       IN (BytesValue(buf, pos \div 8, last) \div Pow2(8 * (last + 1) - (pos + n)))
            % Pow2(n)

\* end-of-stream while more bits are requested
Underflow(buf, pos, n) == pos + n > StreamBits(buf)

-----------------------------------------------------------------------------
(* OlympusDecompressorImpl::bittable *)

RECURSIVE bittableFrom(_, _)
bittableFrom(i, high) ==
  IF high < 12 /\ (extractHighBits(i, high, 11) % 2) # 1
  THEN bittableFrom(i, high + 1)
  ELSE high

\* the table built at construction: SimpleLUT<int8_t, 12>
bittableLUT == [i \in 0 .. 4095 |-> Min(12, bittableFrom(i, 0))]

bittable(i) == bittableLUT[i]

-----------------------------------------------------------------------------
(* OlympusDecompressorImpl::parseCarry, in pieces *)

ZeroCarry == <<0, 0, 0>>

nbitsBiasOf(c) == IF c[3] < 3 THEN 2 ELSE 0

NbitsNoBias(c) == Max(numActiveBits(U16(c[1])), 2)

\* lines 86-89
nbitsOf(c) ==
  Max(numActiveBits(U16(c[1])) - nbitsBiasOf(c), 2 + nbitsBiasOf(c))

signOf(b) == (b \div 16384) * (-1)
lowOf(b) == (b \div 4096) % 4
highOf(b) == bittable(b % 4096)

EscapeBitsWide(nb) == 16

\* line 101: the width of the escaped "high" field
EscapeBits(nb) == 16 - nb

SkipLenPeeked(high) == 15

\* line 103
SkipLen(high) == high + 1 + 3

\* carry[0] ^ sign, for sign in {0, -1}
XorSignDropped(v, sign) == v

XorSign(v, sign) == IF sign = 0 THEN v ELSE -v - 1

\* bits the NoFill operations of one call take (lines 99-105)
takenBits(b, nb) ==
  IF highOf(b) = 12 THEN 15 + EscapeBits(nb) + nb ELSE SkipLen(highOf(b)) + nb

\* the whole call on stream buf at position pos with carry c.
\* ok = FALSE: the stream ended while bits were requested (nothing is changed).
parseCarry(buf, pos, c) ==
  LET nb == nbitsOf(c)
  IN IF Underflow(buf, pos, 15)
     THEN [ok |-> FALSE, carry |-> c, ret |-> 0, pos |-> pos, nbits |-> nb,
           high |-> 0, taken |-> 0]
     ELSE
       LET b == peekBits(buf, pos, 15)
           sign == signOf(b)
           low == lowOf(b)
           h0 == highOf(b)
           n == takenBits(b, nb)
       IN IF Underflow(buf, pos, n)
          THEN [ok |-> FALSE, carry |-> c, ret |-> 0, pos |-> pos, nbits |-> nb,
                high |-> h0, taken |-> 0]
          ELSE
            LET high == IF h0 = 12
                        THEN peekBits(buf, pos + 15, EscapeBits(nb)) \div 2
                        ELSE h0
                c0 == high * Pow2(nb) + peekBits(buf, pos + n - nb, nb)
                diff == XorSign(c0, sign) + c[2]
                c1 == (diff * 3 + c[2]) \div 32
                c2 == IF c0 > 16 THEN 0 ELSE c[3] + 1
            IN [ok |-> TRUE, carry |-> <<c0, c1, c2>>, ret |-> diff * 4 + low,
                pos |-> pos + n, nbits |-> nb, high |-> h0, taken |-> n]

-----------------------------------------------------------------------------
(* OlympusDecompressorImpl::getPred *)

getLeft(o, r, c) == o[r][c - 2]
getUp(o, r, c) == o[r - 2][c]
getLeftUp(o, r, c) == o[r - 2][c - 2]

signbit(v) == v < 0

getPredReadsUnguarded(r, c) == {<<r, c - 2>>, <<r - 2, c>>, <<r - 2, c - 2>>}

\* the cells the lambdas invoked by getPred(out, r, c) read
getPredReads(r, c) ==
  IF r < 2 /\ c < 2 THEN {}
  ELSE IF r < 2 THEN {<<r, c - 2>>}
  ELSE IF c < 2 THEN {<<r - 2, c>>}
  ELSE {<<r, c - 2>>, <<r - 2, c>>, <<r - 2, c - 2>>}

getPredAveraging(o, r, c) ==
  IF r < 2 /\ c < 2 THEN 0
  ELSE IF r < 2 THEN getLeft(o, r, c)
  ELSE IF c < 2 THEN getUp(o, r, c)
  ELSE (getLeft(o, r, c) + getUp(o, r, c)) \div 2

getPred(o, r, c) ==
  IF r < 2 /\ c < 2 THEN 0
  ELSE IF r < 2 THEN getLeft(o, r, c)
  ELSE IF c < 2 THEN getUp(o, r, c)
  ELSE
    LET left == getLeft(o, r, c)
        up == getUp(o, r, c)
        leftUp == getLeftUp(o, r, c)
        leftMinusNw == left - leftUp
        upMinusNw == up - leftUp
    IN IF (signbit(leftMinusNw) # signbit(upMinusNw))
          /\ (leftMinusNw # 0 /\ upMinusNw # 0)
       THEN IF Abs(leftMinusNw) > 32 \/ Abs(upMinusNw) > 32
            THEN left + upMinusNw
            ELSE (left + up) \div 2
       ELSE IF Abs(leftMinusNw) > Abs(upMinusNw) THEN left ELSE up

-----------------------------------------------------------------------------
(* The image and the inputs *)

Cells(d) == (0 .. d.y - 1) \X (0 .. d.x - 1)

InBounds(d, cell) == cell[1] >= 0 /\ cell[1] < d.y /\ cell[2] >= 0 /\ cell[2] < d.x

InitValues == {0, 65535}

\* dimensions offered to the constructor: everything small, and one over the cap
CtorWidths == (0 .. MaxW) \cup {OlympusMaxW + 2, -2}
CtorHeights == (0 .. MaxH) \cup {OlympusMaxH + 2, -2}

U16Format == [cpp |-> 1, type |-> "UINT16", bpp |-> 2]

\* the image formats offered to the constructor
Formats ==
  {U16Format, [U16Format EXCEPT !.cpp = 3], [U16Format EXCEPT !.type = "F32"],
   [U16Format EXCEPT !.bpp = 4]}

\* payload byte patterns, repeated to the length of the input
Patterns == { <<0>>, <<255>>, <<1>>, <<0, 1>>, <<255, 1>>, <<0, 255>>,
              <<3, 85>>, <<0, 0, 128>> }

MkInput(len, pat) ==
  [i \in 1 .. len |->
     IF i <= PrefixBytes THEN 0 ELSE pat[((i - PrefixBytes - 1) % Len(pat)) + 1]]

\* the bit streamer reads input.peekRemainingBuffer() after skipBytes(7): its
\* first bit is bit 8 * 7 of the input
PayloadStart == 8 * PrefixBytes

-----------------------------------------------------------------------------
(* OlympusDecompressorImpl::decompressRow, in pieces *)

ColOfNoParity(group, c) == 2 * group

\* line 160
ColOf(group, c) == 2 * group + c

RowCarriesKept(ac, x) == ac

\* line 155: acarry is a fresh, zero-initialised local of every decompressRow
\* call; x is the column of the next sample
RowCarries(ac, x) == IF x = 0 THEN <<ZeroCarry, ZeroCarry>> ELSE ac

-----------------------------------------------------------------------------
(* OlympusDecompressor actions *)

OlympusInit ==
  /\ ophase = "new"
  /\ oerr = "none"
  /\ dim = [x |-> 0, y |-> 0]
  /\ ofmt = U16Format
  /\ initv = 0
  /\ out = <<>>
  /\ input = <<>>
  /\ bitpos = 0
  /\ row = 0
  /\ col = 0
  /\ acarry = <<ZeroCarry, ZeroCarry>>
  /\ nbits = 0
  /\ taken = 0
  /\ accessed = {}
  /\ wlog = <<>>
  /\ lastPred = 0
  /\ lastDiff = 0

\* lines 186-187: one component per pixel, 16-bit unsigned samples of
\* sizeof(uint16_t) bytes
BadFormat(f) == f.cpp # 1 \/ f.type # "UINT16" \/ f.bpp # 2

\* uint32_t(v) > lim for an int v and 0 <= lim < 2^31: a negative v converts
\* to v + 2^32 >= 2^31
U32Greater(v, lim) == v < 0 \/ v > lim

\* lines 190-193, w and h being the int dimensions before their conversion to
\* uint32_t; v + 2^32 is zero for no negative v and has the parity of v
BadDimensions(w, h) ==
  w = 0 \/ h = 0 \/ w % 2 # 0 \/ h % 2 # 0
    \/ U32Greater(w, OlympusMaxW) \/ U32Greater(h, OlympusMaxH)

\* OlympusDecompressor::OlympusDecompressor on an image of format f and w x h
\* cells whose buffer was created holding v everywhere
Construct(w, h, v, f) ==
  /\ ophase = "new"
  /\ dim' = [x |-> w, y |-> h]
  /\ ofmt' = f
  /\ IF BadFormat(f) \/ BadDimensions(w, h)
     THEN /\ ophase' = "rejected"
          /\ oerr' = "RDE"
          /\ UNCHANGED <<initv, out>>
     ELSE /\ ophase' = "ready"
          /\ initv' = v
          /\ out' = [r \in 0 .. h - 1 |-> [c \in 0 .. w - 1 |-> v]]
          /\ UNCHANGED oerr
  /\ UNCHANGED <<input, bitpos, row, col, acarry, nbits, taken, accessed, wlog,
               lastPred, lastDiff>>

\* OlympusDecompressorImpl::decompress up to the row loop: skipBytes(7) and the
\* construction of the bit streamer
Decompress(inp) ==
  /\ ophase = "ready"
  /\ input' = inp
  /\ IF Len(inp) < PrefixBytes
     THEN ophase' = "error" /\ oerr' = "IoEof" /\ UNCHANGED bitpos
     ELSE ophase' = "running" /\ bitpos' = PayloadStart /\ UNCHANGED oerr
  /\ UNCHANGED <<dim, ofmt, initv, out, row, col, acarry, nbits, taken, accessed, wlog,
               lastPred, lastDiff>>

\* one iteration of the inner loop of decompressRow (lines 159-167), with the
\* loop bookkeeping of decompressRow and decompress around it; col counts the
\* samples of the row, so group = col \div 2 and c = col % 2
DecodeSample ==
  /\ ophase = "running"
  /\ LET c == col % 2
         x == ColOf(col \div 2, c)
         ac == RowCarries(acarry, col)
         pc == parseCarry(input, bitpos, ac[c + 1])
         cells == getPredReads(row, x) \cup {<<row, x>>}
     IN IF ~pc.ok
        THEN /\ ophase' = "error"
             /\ oerr' = "TruncatedBitstream"
             /\ UNCHANGED <<out, bitpos, row, col, acarry, nbits, taken, accessed, wlog,
               lastPred, lastDiff>>
        ELSE
          /\ acarry' = [ac EXCEPT ![c + 1] = pc.carry]
          /\ nbits' = pc.nbits
          /\ taken' = pc.taken
          /\ bitpos' = pc.pos
          /\ accessed' = cells
          /\ IF \A cell \in cells : InBounds(dim, cell)
             THEN /\ lastPred' = getPred(out, row, x)
                  /\ lastDiff' = pc.ret
                  /\ out' = [out EXCEPT ![row][x] = U16(getPred(out, row, x) + pc.ret)]
                  /\ wlog' = Append(wlog, <<row, x>>)
                  /\ IF col + 1 < dim.x
                     THEN col' = col + 1 /\ UNCHANGED <<row, ophase>>
                     ELSE /\ col' = 0
                          /\ row' = row + 1
                          /\ ophase' = IF row + 1 < dim.y THEN "running" ELSE "done"
             ELSE /\ ophase' = "oob"
                  /\ UNCHANGED <<out, wlog, row, col, lastPred, lastDiff>>
          /\ UNCHANGED oerr
  /\ UNCHANGED <<dim, ofmt, initv, input>>

DoConstruct ==
  /\ \E w \in CtorWidths, h \in CtorHeights, v \in InitValues, f \in Formats :
       Construct(w, h, v, f)
  /\ UNCHANGED <<cVars, tVars, fVars, aVars>>

DoDecompress ==
  /\ \E len \in 0 .. MaxInputLen, pat \in Patterns : Decompress(MkInput(len, pat))
  /\ UNCHANGED <<cVars, tVars, fVars, aVars>>

DoDecodeSample == DecodeSample /\ UNCHANGED <<cVars, tVars, fVars, aVars>>

OlympusNext == DoConstruct \/ DoDecompress \/ DoDecodeSample

-----------------------------------------------------------------------------
(* parseCarry on its own: the carry triples reachable from (0,0,0) *)

CarryInit ==
  /\ carry = ZeroCarry
  /\ carryNbits = 0
  /\ carryHigh = 0
  /\ carryTaken = 0
  /\ carrySteps = 0

\* the next 32 bits of the stream: a first byte (sign, low, top of the 12-bit
\* field), a second byte (rest of the field) and a tail of zeros or ones
Tokens == {<<a, b, t, t>> : a \in {0, 255}, b \in {0, 3, 255}, t \in {0, 255}}

CarryStep(tok) ==
  /\ carrySteps < MaxCarrySteps
  /\ LET pc == parseCarry(tok, 0, carry)
     IN /\ pc.ok
        /\ carry' = pc.carry
        /\ carryNbits' = pc.nbits
        /\ carryHigh' = pc.high
        /\ carryTaken' = pc.taken
  /\ carrySteps' = carrySteps + 1

\* line 155: a new row starts from zero carries
CarryReset ==
  /\ carrySteps > 0
  /\ carry' = ZeroCarry
  /\ carrySteps' = 0
  /\ UNCHANGED <<carryNbits, carryHigh, carryTaken>>

DoCarryStep == (\E tok \in Tokens : CarryStep(tok)) /\ UNCHANGED <<oVars, tVars, fVars, aVars>>

DoCarryReset == CarryReset /\ UNCHANGED <<oVars, tVars, fVars, aVars>>

CarryNext == DoCarryStep \/ DoCarryReset

-----------------------------------------------------------------------------
(* TableLookUp *)

\* the number of entries a table is built for: 65536 in the source (every
\* uint16_t value); the model indexes tables with TableIndexBits bits
TABLE_MAX_ELTS == Pow2(TableIndexBits)
TABLE_SIZE == TABLE_MAX_ELTS * 2

\* adt/Bit.h clampBits: clamp to [0, 2^nBits - 1]
clampBits(value, nb) == Max(0, Min(value, Pow2(nb) - 1))

\* source LUT values (uint16_t)
SrcValues == {0, 7, 65535}

\* source LUTs handed to setTable: every short one, some longer ones (rising,
\* falling, with a peak, with a dip, constant) and one that is too long
Sources ==
  UNION {[1 .. n -> SrcValues] : n \in 1 .. MaxSrcLen}
    \cup {<<0, 7, 65535>>, <<65535, 7, 0>>, <<7, 65535, 0>>, <<7, 0, 65535>>,
          <<100, 100, 100>>, <<0, 1, 2, 3>>}
    \cup {[i \in 1 .. TABLE_MAX_ELTS + 1 |-> 7]}

\* the indices callers pass
TableIndices == -1 .. MaxTables + 1

NoLast == [op |-> "none", n |-> 0, src |-> <<>>, res |-> "none"]

TableInit ==
  /\ tphase = "new"
  /\ ntables = 0
  /\ dither = FALSE
  /\ tables = <<>>
  /\ tlast = NoLast
  /\ tcalls = 0

\* TableLookUp::TableLookUp
TableConstruct(n, d) ==
  /\ tphase = "new"
  /\ ntables' = n
  /\ dither' = d
  /\ IF n < 1
     THEN tphase' = "rejected" /\ UNCHANGED tables
     ELSE /\ tphase' = "ready"
          /\ tables' = [k \in 0 .. n - 1 |-> [j \in 0 .. TABLE_SIZE - 1 |-> 0]]
  /\ UNCHANGED <<tlast, tcalls>>

NoDitherEntryZeroPad(src, i) == IF i < Len(src) THEN src[i + 1] ELSE 0

\* line 64, table[i] being src[i + 1]
NoDitherEntry(src, i) == IF i < Len(src) THEN src[i + 1] ELSE src[Len(src)]

\* lines 69-74
CenterOf(src, i) == src[i + 1]

LowerOfUnclamped(src, i) == IF i > 0 THEN src[i] ELSE CenterOf(src, i)

LowerOf(src, i) ==
  Min(IF i > 0 THEN src[i] ELSE CenterOf(src, i), CenterOf(src, i))

UpperOf(src, i) ==
  Max(IF i < Len(src) - 1 THEN src[i + 2] ELSE CenterOf(src, i), CenterOf(src, i))

\* line 75
DeltaOf(src, i) == UpperOf(src, i) - LowerOf(src, i)

\* line 77
DitherBase(src, i) ==
  clampBits(CenterOf(src, i) - ((UpperOf(src, i) - LowerOf(src, i) + 2) \div 4), 16)

\* entry j of the row setTable leaves behind, old being the row before the call
\* (lines 62-84)
BuiltEntry(old, src, dith, j) ==
  IF ~dith
  THEN IF j < TABLE_MAX_ELTS THEN NoDitherEntry(src, j) ELSE old[j]
  ELSE LET i == j \div 2
       IN IF i < Len(src)
          THEN IF j % 2 = 0 THEN DitherBase(src, i) ELSE DeltaOf(src, i)
          ELSE IF j % 2 = 0 THEN src[Len(src)] ELSE 0

\* lines 57 and 88: the guard on the table number
GuardRejects(n, nt) == n > nt

\* Array2DRef(tables.data(), TABLE_SIZE, ntables)[n] names storage of the object
RowInStorage(n, nt) == 0 <= n /\ n < nt

\* TableLookUp::setTable; src is not empty (line 51)
SetTable(n, src) ==
  /\ tphase = "ready"
  /\ tcalls < MaxTableCalls
  /\ tcalls' = tcalls + 1
  /\ IF Len(src) > TABLE_MAX_ELTS \/ GuardRejects(n, ntables)
     THEN /\ tlast' = [op |-> "setTable", n |-> n, src |-> src, res |-> "RDE"]
          /\ UNCHANGED <<tphase, tables>>
     ELSE IF ~RowInStorage(n, ntables)
     THEN \* the row lies outside the vector: the writes are undefined behaviour
          /\ tlast' = [op |-> "setTable", n |-> n, src |-> src, res |-> "oob"]
          /\ tphase' = "oob"
          /\ UNCHANGED tables
     ELSE /\ tlast' = [op |-> "setTable", n |-> n, src |-> src, res |-> "ok"]
          /\ tables' = [tables EXCEPT ![n] =
                          [j \in 0 .. TABLE_SIZE - 1 |-> BuiltEntry(tables[n], src, dither, j)]]
          /\ UNCHANGED tphase
  /\ UNCHANGED <<ntables, dither>>

\* TableLookUp::getTable
GetTable(n) ==
  /\ tphase = "ready"
  /\ tcalls < MaxTableCalls
  /\ tcalls' = tcalls + 1
  /\ IF GuardRejects(n, ntables)
     THEN /\ tlast' = [op |-> "getTable", n |-> n, src |-> <<>>, res |-> "RDE"]
          /\ UNCHANGED tphase
     ELSE IF ~RowInStorage(n, ntables)
     THEN /\ tlast' = [op |-> "getTable", n |-> n, src |-> <<>>, res |-> "oob"]
          /\ tphase' = "oob"
     ELSE /\ tlast' = [op |-> "getTable", n |-> n, src |-> <<>>, res |-> "ok"]
          /\ UNCHANGED tphase
  /\ UNCHANGED <<ntables, dither, tables>>

DoTableConstruct ==
  /\ \E n \in 0 .. MaxTables, d \in BOOLEAN : TableConstruct(n, d)
  /\ UNCHANGED <<oVars, cVars, fVars, aVars>>

DoSetTable ==
  /\ \E n \in TableIndices, src \in Sources : SetTable(n, src)
  /\ UNCHANGED <<oVars, cVars, fVars, aVars>>

DoGetTable ==
  /\ \E n \in TableIndices : GetTable(n)
  /\ UNCHANGED <<oVars, cVars, fVars, aVars>>

TableNext == DoTableConstruct \/ DoSetTable \/ DoGetTable

-----------------------------------------------------------------------------
(* FujiDecompressor: header, strips and the strip-parallel decode *)

FujiSignature == 18771   \* 0x4953

\* C++ integer division (truncation toward zero), for b > 0
TruncDiv(a, b) == IF a >= 0 THEN a \div b ELSE -((-a) \div b)
TruncMod(a, b) == a - b * TruncDiv(a, b)

CeilDiv(a, b) == (a + b - 1) \div b

\* the MCU shape derived from raw_type
McuOf(raw_type) == IF raw_type = 0 THEN [x |-> 2, y |-> 6] ELSE [x |-> 1, y |-> 6]

\* FujiHeader::operator bool
HeaderValid(h) ==
  /\ h.signature = FujiSignature
  /\ h.raw_height > 0
  /\ h.raw_width > 0
  /\ h.block_size > 0
  /\ h.blocks_in_row = CeilDiv(h.raw_rounded_width, h.block_size)
  /\ h.raw_rounded_width >= h.raw_width
  /\ h.block_size % h.MCU.x = 0

\* FujiStrip::lineHeight
lineHeight == 6

\* FujiStrip::height
height(h) == h.total_lines

OffsetXShort(h, n) == (h.block_size - 1) * n

\* FujiStrip::offsetX
offsetX(h, n) == h.block_size * n

\* FujiStrip::width
width(h, n) ==
  IF (n + 1) # h.blocks_in_row THEN h.block_size ELSE h.raw_width - offsetX(h, n)

\* the assertion of FujiStrip::width (line 105), made for the last strip only
WidthAssert(h, n) ==
  (n + 1) = h.blocks_in_row => h.block_size * h.blocks_in_row >= h.raw_width

\* the assertions of FujiStrip::numMCUs (lines 111-112)
NumMCUsAssert(h, n) ==
  /\ TruncMod(width(h, n), h.MCU.x) = 0
  /\ lineHeight % h.MCU.y = 0

\* FujiStrip::numMCUs
numMCUs(h, n) ==
  [x |-> TruncDiv(width(h, n), h.MCU.x), y |-> lineHeight \div h.MCU.y]

\* FujiStrip::offsetY
offsetY(line) == lineHeight * line

Strips(h) == 0 .. h.blocks_in_row - 1

\* the output columns strip n covers
Band(h, n) == {c \in offsetX(h, n) .. offsetX(h, n) + width(h, n) - 1 : TRUE}

\* the output cells one line of strip n is copied to: whole MCUs of its band
LineCells(h, n, line) ==
  {<<offsetY(line) + r, offsetX(h, n) + x>> :
     r \in 0 .. lineHeight - 1, x \in 0 .. numMCUs(h, n).x * h.MCU.x - 1}

\* the sample strip n decodes for a cell: a function of the strip's own bytes
\* and of the position inside the strip
StripSample(seed, h, n, cell) ==
  (seed + 1000 * n + 10 * cell[1] + (cell[2] - offsetX(h, n))) % 16384

\* the image after writing line `line` of strip n into img
WriteLine(img, seed, h, n, line) ==
  LET cells == LineCells(h, n, line)
  IN [cell \in (DOMAIN img) \cup cells |->
        IF cell \in cells THEN StripSample(seed, h, n, cell) ELSE img[cell]]

RECURSIVE DecodeLinesFrom(_, _, _, _, _)
\* fuji_decode_strip: the lines of strip n from `line` on, in order
DecodeLinesFrom(img, seed, h, n, line) ==
  IF line >= height(h) THEN img
  ELSE DecodeLinesFrom(WriteLine(img, seed, h, n, line), seed, h, n, line + 1)

RECURSIVE DecodeStripsFrom(_, _, _, _)
\* the sequential decode: the strips from n on, left to right
DecodeStripsFrom(img, seed, h, n) ==
  IF n >= h.blocks_in_row THEN img
  ELSE DecodeStripsFrom(DecodeLinesFrom(img, seed, h, n, 0), seed, h, n + 1)

\* fhdr before the constructor has run: there is no header yet
NotParsed == <<>>

\* a header with a foreign signature
ForeignHeader ==
  [signature |-> 0, raw_type |-> 0, raw_height |-> lineHeight,
   raw_rounded_width |-> 2, raw_width |-> 2, block_size |-> 2,
   blocks_in_row |-> 1, total_lines |-> 1, MCU |-> McuOf(0)]

\* the headers offered to the constructor
Headers ==
  {[signature |-> sig, raw_type |-> rt, raw_height |-> lineHeight * tl,
    raw_rounded_width |-> rrw, raw_width |-> rw, block_size |-> bs,
    blocks_in_row |-> b, total_lines |-> tl, MCU |-> McuOf(rt)] :
     sig \in {FujiSignature}, rt \in {0, 16}, tl \in 1 .. MaxFujiLines,
     rrw \in 1 .. MaxFujiWidth, rw \in 1 .. MaxFujiWidth,
     bs \in 1 .. MaxFujiWidth, b \in 1 .. MaxFujiWidth}
  \cup {ForeignHeader}

Seeds == {0, 77}

EmptyImage == [cell \in {} |-> 0]

FujiInit ==
  /\ fphase = "new"
  /\ fhdr = NotParsed
  /\ fseed = 0
  /\ fline = <<>>
  /\ fout = EmptyImage
  /\ fowner = EmptyImage
  /\ frace = FALSE

\* FujiDecompressor::FujiDecompressor: the header is parsed and validated, the
\* strips are carved
FujiConstruct(h, seed) ==
  /\ fphase = "new"
  /\ fhdr' = h
  /\ IF HeaderValid(h)
     THEN /\ fphase' = "decoding"
          /\ fseed' = seed
          /\ fline' = [n \in Strips(h) |-> 0]
     ELSE /\ fphase' = "rejected"
          /\ UNCHANGED <<fseed, fline>>
  /\ UNCHANGED <<fout, fowner, frace>>

\* a worker thread decodes and copies out the next line of strip n
\* (decompressThread -> fuji_decode_strip); the threads are joined, and
\* decompress returns, when every strip is through.  The assertions of
\* FujiStrip are compiled out of a release build, which copies the whole MCUs
\* that numMCUs counts.
DecodeStripLine(n) ==
  /\ fphase = "decoding"
  /\ n \in Strips(fhdr)
  /\ fline[n] < height(fhdr)
  /\ LET cells == LineCells(fhdr, n, fline[n])
         nl == [fline EXCEPT ![n] = @ + 1]
     IN /\ fout' = WriteLine(fout, fseed, fhdr, n, fline[n])
        /\ fowner' = [cell \in (DOMAIN fowner) \cup cells |->
                        IF cell \in cells THEN n ELSE fowner[cell]]
        /\ frace' = (frace \/ \E cell \in cells \cap DOMAIN fowner : fowner[cell] # n)
        /\ fline' = nl
        /\ fphase' = IF \A m \in Strips(fhdr) : nl[m] = height(fhdr)
                     THEN "done" ELSE "decoding"
  /\ UNCHANGED <<fhdr, fseed>>

\* a build with assertions: one of FujiStrip::width or FujiStrip::numMCUs
\* fails for strip n
StripAssertFails(n) ==
  /\ fphase = "decoding"
  /\ n \in Strips(fhdr)
  /\ fline[n] < height(fhdr)
  /\ ~(WidthAssert(fhdr, n) /\ NumMCUsAssert(fhdr, n))
  /\ fphase' = "abort"
  /\ UNCHANGED <<fhdr, fseed, fline, fout, fowner, frace>>

DoFujiConstruct ==
  /\ \E h \in Headers, seed \in Seeds : FujiConstruct(h, seed)
  /\ UNCHANGED <<oVars, cVars, tVars, aVars>>

DoDecodeStripLine ==
  /\ \E n \in 0 .. MaxFujiWidth : DecodeStripLine(n)
  /\ UNCHANGED <<oVars, cVars, tVars, aVars>>

DoStripAssertFails ==
  /\ \E n \in 0 .. MaxFujiWidth : StripAssertFails(n)
  /\ UNCHANGED <<oVars, cVars, tVars, aVars>>

FujiNext == DoFujiConstruct \/ DoDecodeStripLine \/ DoStripAssertFails

-----------------------------------------------------------------------------
(* AlignedAllocator *)

Null == 0

Pointers == 1 .. MaxBlocks

NoCall == [op |-> "none", p |-> Null, n |-> 0, violated |-> FALSE, before |-> <<>>]

AllocInit ==
  /\ heap = <<>>
  /\ astatus = "ok"
  /\ alast = NoCall
  /\ acalls = 0

\* free(ptr) / _aligned_free(ptr): a null pointer is accepted and ignored
alignedFree(h, p) ==
  IF p = Null THEN h ELSE [q \in (DOMAIN h) \ {p} |-> h[q]]

DeallocatePreSizeOnly(p, n) == n > 0

\* the invariants of deallocate (lines 113-114)
DeallocatePre(p, n) == p # Null /\ n > 0

\* AlignedAllocator::allocate(numElts), numElts > 0; alignedMalloc hands out a
\* block that is not live, or null (out of memory: ThrowRSE)
Allocate(numElts) ==
  /\ astatus = "ok"
  /\ acalls < MaxAllocCalls
  /\ acalls' = acalls + 1
  /\ \E p \in (Pointers \ DOMAIN heap) \cup {Null} :
       /\ alast' = [op |-> "allocate", p |-> p, n |-> numElts, violated |-> FALSE,
                    before |-> heap]
       /\ heap' = IF p = Null THEN heap
                  ELSE [q \in (DOMAIN heap) \cup {p} |-> IF q = p THEN numElts ELSE heap[q]]
  /\ UNCHANGED astatus

\* AlignedAllocator::deallocate(p, n) with p null or a live block.  A failed
\* invariant aborts (a build that checks invariants) or is assumed away (a
\* build that does not), the call then going on to alignedFree.
Deallocate(p, n) ==
  /\ astatus = "ok"
  /\ acalls < MaxAllocCalls
  /\ acalls' = acalls + 1
  /\ alast' = [op |-> "deallocate", p |-> p, n |-> n,
               violated |-> ~DeallocatePre(p, n), before |-> heap]
  /\ IF DeallocatePre(p, n)
     THEN heap' = alignedFree(heap, p) /\ UNCHANGED astatus
     ELSE \/ astatus' = "abort" /\ UNCHANGED heap
          \/ heap' = alignedFree(heap, p) /\ UNCHANGED astatus

\* impl::alignedFree(p) called directly, with p null or a live block
AlignedFree(p) ==
  /\ astatus = "ok"
  /\ acalls < MaxAllocCalls
  /\ acalls' = acalls + 1
  /\ alast' = [op |-> "alignedFree", p |-> p, n |-> 0, violated |-> FALSE,
               before |-> heap]
  /\ heap' = alignedFree(heap, p)
  /\ UNCHANGED astatus

DoAllocate ==
  /\ \E numElts \in 1 .. MaxElts : Allocate(numElts)
  /\ UNCHANGED <<oVars, cVars, tVars, fVars>>

DoDeallocate ==
  /\ \E p \in (DOMAIN heap) \cup {Null}, n \in 0 .. MaxElts : Deallocate(p, n)
  /\ UNCHANGED <<oVars, cVars, tVars, fVars>>

DoAlignedFree ==
  /\ \E p \in (DOMAIN heap) \cup {Null} : AlignedFree(p)
  /\ UNCHANGED <<oVars, cVars, tVars, fVars>>

AllocNext == DoAllocate \/ DoDeallocate \/ DoAlignedFree

-----------------------------------------------------------------------------
(* Specifications *)

AllInit == OlympusInit /\ CarryInit /\ TableInit /\ FujiInit /\ AllocInit

SpecFuji == AllInit /\ [][FujiNext]_vars

SpecAlloc == AllInit /\ [][AllocNext]_vars

SpecTable == AllInit /\ [][TableNext]_vars

SpecOlympus == AllInit /\ [][OlympusNext]_vars

SpecCarry == AllInit /\ [][CarryNext]_vars

-----------------------------------------------------------------------------
(* Properties of the Olympus decoder (SpecOlympus) *)

Started == ophase \in {"running", "done", "error", "oob"}

Finished == ophase \in {"done", "error"}

\* the bit stream after the 7 prefix bytes is all zero
ZeroStream == \A i \in PrefixBytes + 1 .. Len(input) : input[i] = 0

PayloadBytes == Len(input) - PrefixBytes

ZeroImage == \A cell \in Cells(dim) : out[cell[1]][cell[2]] = 0

\* position of a cell in raster order, from 0
RasterIndex(cell) == cell[1] * dim.x + cell[2]

\* C1: for every admissible image size and every input, decompress returns
\* normally or fails with a decoder error (IoEof, TruncatedBitstream), and
\* every cell that decompressRow writes or getPred reads lies inside the image.
C1_BoundsSafety ==
  /\ ophase # "oob"
  /\ \A cell \in accessed : InBounds(dim, cell)
  /\ ophase = "error" => oerr \in {"IoEof", "TruncatedBitstream"}
  /\ ophase \in {"ready", "running", "done"} => oerr = "none"
  /\ Started => (~BadFormat(ofmt) /\ ~BadDimensions(dim.x, dim.y) /\ dim.x > 0 /\ dim.y > 0)

\* a finished decode whose last sample read all three neighbours and wrote
C1_Witness ==
  /\ ophase = "done"
  /\ Cardinality(accessed) = 4
  /\ dim.x > 2 /\ dim.y > 2

\* C6: the cells are written in raster order, each at most once; at every
\* point of the decode, an error stop included, the cells written so far are
\* the first k cells in raster order for the k samples decoded so far, every
\* other cell holds its construction-time value, and on success k = W*H.
C6_RasterOrderWrites ==
  Started =>
    /\ \A i \in 1 .. Len(wlog) : RasterIndex(wlog[i]) = i - 1
    /\ Len(wlog) = row * dim.x + col
    /\ Len(wlog) <= dim.x * dim.y
    /\ \A cell \in Cells(dim) :
         RasterIndex(cell) >= Len(wlog) => out[cell[1]][cell[2]] = initv
    /\ ophase = "done" => Len(wlog) = dim.x * dim.y

\* the decode stopped on a truncated stream part-way through the image
C6_Witness ==
  /\ ophase = "error"
  /\ oerr = "TruncatedBitstream"
  /\ Len(wlog) > dim.x
  /\ Len(wlog) < dim.x * dim.y
  /\ initv # 0

\* C7 as stated: an all-zero stream of at least W*H*2 bytes after the prefix
\* decodes successfully to the all-zero image.
C7_ZeroStreamTwoBytesPerSample ==
  (Finished /\ Len(input) >= PrefixBytes /\ ZeroStream
     /\ PayloadBytes >= dim.x * dim.y * 2)
    => (ophase = "done" /\ ZeroImage)

\* C7 amended: every sample of an all-zero stream takes 31 bits, so an all-zero
\* stream decodes successfully, to the all-zero image, exactly when it holds
\* at least 31*W*H bits after the prefix.
C7_ZeroStreamThirtyOneBitsPerSample ==
  (Finished /\ Len(input) >= PrefixBytes /\ ZeroStream) =>
    /\ (8 * PayloadBytes >= 31 * dim.x * dim.y) => (ophase = "done" /\ ZeroImage)
    /\ (8 * PayloadBytes < 31 * dim.x * dim.y) =>
         (ophase = "error" /\ oerr = "TruncatedBitstream")
    /\ bitpos = PayloadStart + 31 * Len(wlog)

\* the 2 x 2 image decoded to zeros from a buffer that did not hold zeros
C7_Witness ==
  /\ ophase = "done"
  /\ ZeroStream
  /\ dim = [x |-> 2, y |-> 2]
  /\ PayloadBytes = 16
  /\ initv # 0
  /\ ZeroImage

\* C8 as stated: after an all-zero stream both carry triples are (0, 0, k)
\* with k >= 3.
C8_ZeroStreamCarriesAtLeastThree ==
  (ophase = "done" /\ ZeroStream) =>
    \A c \in 1 .. 2 : acarry[c][1] = 0 /\ acarry[c][2] = 0 /\ acarry[c][3] >= 3

\* C8 amended: the carries restart from (0,0,0) in every row, so after an
\* all-zero stream both carry triples are (0, 0, W/2): k >= 3 only for W >= 6.
C8_ZeroStreamCarriesHalfWidth ==
  (ophase = "done" /\ ZeroStream) =>
    \A c \in 1 .. 2 : acarry[c] = <<0, 0, dim.x \div 2>>

\* an all-zero decode of an image wide enough for k = 3, of more than one row
C8_Witness ==
  /\ ophase = "done"
  /\ ZeroStream
  /\ dim.x = 6
  /\ acarry[1][3] = 3 /\ acarry[2][3] = 3

-----------------------------------------------------------------------------
(* Properties of TableLookUp (SpecTable) *)

SetOk == tlast.op = "setTable" /\ tlast.res = "ok"

\* C3: in non-dither mode, after setTable(n, v) with L = |v| <= TABLE_MAX_ELTS,
\* table n holds T[i] = v[min(i, L-1)] for every i below TABLE_MAX_ELTS.
C3_NoDitherTable ==
  /\ (SetOk /\ ~dither) =>
       \A i \in 0 .. TABLE_MAX_ELTS - 1 :
         tables[tlast.n][i] = tlast.src[Min(i, Len(tlast.src) - 1) + 1]
  /\ (tlast.op = "setTable" /\ RowInStorage(tlast.n, ntables)
        /\ Len(tlast.src) <= TABLE_MAX_ELTS) => tlast.res = "ok"

\* a non-dither table built from a shorter, non-constant source
C3_Witness ==
  /\ SetOk /\ ~dither
  /\ tlast.n = 1
  /\ Len(tlast.src) = 3
  /\ Len(tlast.src) < TABLE_MAX_ELTS
  /\ tlast.src = <<65535, 7, 0>>

\* C4: in dither mode, after setTable(n, src) with len = |src|, for i < len
\* entry i is the pair (center - (upper - lower + 2) / 4 clamped to 16 bits,
\* delta) with center = src[i], lower = min(src[max(i-1,0)], center),
\* upper = max(src[min(i+1,len-1)], center), delta = upper - lower (the
\* quotient by 4 being the integer one, which rounds delta / 4 to nearest);
\* for len <= i < TABLE_MAX_ELTS entry i is (src[len-1], 0).
C4_DitherTable ==
  (SetOk /\ dither) =>
    LET src == tlast.src
        len == Len(src)
        T == tables[tlast.n]
    IN \A i \in 0 .. TABLE_MAX_ELTS - 1 :
         IF i < len
         THEN LET center == src[i + 1]
                  lower == Min(src[Max(i - 1, 0) + 1], center)
                  upper == Max(src[Min(i + 1, len - 1) + 1], center)
                  delta == upper - lower
                  base == center - ((upper - lower + 2) \div 4)
              IN /\ T[2 * i] = (IF base < 0 THEN 0 ELSE IF base > 65535 THEN 65535 ELSE base)
                 /\ T[2 * i + 1] = delta
         ELSE /\ T[2 * i] = src[len]
              /\ T[2 * i + 1] = 0

\* a dither table built from a non-monotonic source, with a clamped entry and
\* entries past the end of the source
C4_Witness ==
  /\ SetOk /\ dither
  /\ tlast.src = <<7, 0, 65535>>
  /\ tables[tlast.n][2] = 0
  /\ tables[tlast.n][3] = 65535
  /\ tables[tlast.n][2 * 3] = 65535

-----------------------------------------------------------------------------
(* Properties of the Fuji strip decode (SpecFuji) *)

\* C5: for a valid header, strip n writes only columns
\* [n*block_size, n*block_size + width(n)), these bands are pairwise disjoint,
\* no cell is written by two strips, and whatever the order or interleaving of
\* the workers the finished image is that of the sequential left-to-right
\* decode.
C5_StripIndependence ==
  fphase \in {"decoding", "done"} =>
    /\ \A cell \in DOMAIN fowner : cell[2] \in Band(fhdr, fowner[cell])
    /\ \A m \in Strips(fhdr), n \in Strips(fhdr) :
         m # n => Band(fhdr, m) \cap Band(fhdr, n) = {}
    /\ ~frace
    /\ fphase = "done" => fout = DecodeStripsFrom(EmptyImage, fseed, fhdr, 0)

\* a finished decode of several strips of two lines, the last strip narrower
C5_Witness ==
  /\ fphase = "done"
  /\ fhdr.blocks_in_row >= 2
  /\ fhdr.total_lines = 2
  /\ width(fhdr, fhdr.blocks_in_row - 1) > 0
  /\ width(fhdr, fhdr.blocks_in_row - 1) < fhdr.block_size
  /\ fhdr.block_size > 1

-----------------------------------------------------------------------------
(* Properties of the aligned allocator (SpecAlloc) *)

\* C10 as stated: deallocate with a null pointer is permitted and has no
\* effect: it violates no precondition and frees nothing.
C10_NullDeallocatePermitted ==
  (alast.op = "deallocate" /\ alast.p = Null) =>
    (~alast.violated /\ astatus = "ok" /\ heap = alast.before)

\* C10 amended: impl::alignedFree with a null pointer, any number of times, is
\* permitted and has no effect; AlignedAllocator::deallocate requires p to be
\* non-null and n > 0, so a null deallocate violates its invariant.
C10_NullAlignedFreeNoEffect ==
  /\ (alast.op = "alignedFree" /\ alast.p = Null) =>
       (~alast.violated /\ astatus = "ok" /\ heap = alast.before)
  /\ alast.op = "deallocate" => (alast.violated <=> (alast.p = Null \/ alast.n <= 0))
  /\ astatus = "abort" => alast.violated

\* a null alignedFree with blocks live, after an earlier null deallocate went
\* through
C10_Witness ==
  /\ alast.op = "alignedFree" /\ alast.p = Null
  /\ astatus = "ok"
  /\ DOMAIN heap # {}
  /\ acalls >= 3

-----------------------------------------------------------------------------
(* Properties of parseCarry (SpecCarry) *)

\* C2: for every bit pattern and every carry triple reachable from (0,0,0),
\* the nbits parseCarry computes satisfies 2 <= nbits <= 14.
C2_NbitsInRange ==
  /\ 2 <= nbitsOf(carry) /\ nbitsOf(carry) <= 14
  /\ carrySteps > 0 => (2 <= carryNbits /\ carryNbits <= 14)

\* nbits reached its maximum on a carry whose c0 does not fit 16 bits
C2_Witness ==
  /\ carryNbits = 14
  /\ carry[1] > 65535
  /\ nbitsOf(carry) = 14

\* C9 as stated: the NoFill operations of one parseCarry call take at most 25
\* bits in total.
C9_NoFillAtMost25 == carryTaken <= 25

\* C9 amended: they take exactly 31 bits in the high == 12 branch and
\* high + 4 + nbits <= 29 bits in the high < 12 branch, so at most 31.
C9_NoFillAtMost31 ==
  carrySteps > 0 =>
    /\ carryTaken <= 31
    /\ carryHigh = 12 => carryTaken = 31
    /\ carryHigh < 12 => (carryTaken = carryHigh + 4 + carryNbits /\ carryTaken <= 29)

\* a call that took the high == 12 branch with a large nbits
C9_Witness ==
  /\ carryHigh = 12
  /\ carryTaken = 31
  /\ carryNbits >= 12

\* bit j of a token, counted from the most significant bit of its first byte
TokenBit(tok, j) == (tok[(j \div 8) + 1] \div Pow2(7 - (j % 8))) % 2

RECURSIVE TokenBits(_, _, _)
\* the n bits of a token from bit `from`, as a number
TokenBits(tok, from, n) ==
  IF n = 0 THEN 0
  ELSE 2 * TokenBits(tok, from, n - 1) + TokenBit(tok, from + n - 1)

\* the number of leading zero bits of a 12-bit field
LeadingZeros12(f) ==
  CHOOSE k \in 0 .. 12 :
    IF f = 0 THEN k = 12 ELSE k < 12 /\ Pow2(11 - k) <= f /\ f < Pow2(12 - k)

\* what the statement of parseCarry gives for carry c and the upcoming bits tok
StatedParse(c, tok) ==
  LET nb == nbitsOf(c)
      b == TokenBits(tok, 0, 15)
      sign == -(b \div 16384)
      low == (b \div 4096) % 4
      lz == LeadingZeros12(b % 4096)
      ntaken == IF lz = 12 THEN 31 ELSE lz + 4 + nb
      hi == IF lz = 12 THEN TokenBits(tok, 15, 16 - nb) \div 2 ELSE lz
      c0 == hi * Pow2(nb) + TokenBits(tok, ntaken - nb, nb)
      diff == (IF sign = -1 THEN -c0 - 1 ELSE c0) + c[2]
      c1 == (3 * diff + c[2]) \div 32
      c2 == IF c0 > 16 THEN 0 ELSE c[3] + 1
  IN [carry |-> <<c0, c1, c2>>, ret |-> 4 * diff + low, taken |-> ntaken]

\* C11: parseCarry on carry (c0, c1, c2) and the upcoming bits, b being the 15
\* peeked bits: sign = -(bit 14 of b), low = (b >> 12) & 3, high = leading
\* zeros of b & 0xFFF, replaced when 12 by the next 16 - nbits bits shifted
\* right by 1; c0' = (high << nbits) | next nbits bits,
\* diff = (c0' XOR sign) + c1, c1' = (3*diff + c1) >> 5 (arithmetic),
\* c2' = 0 if c0' > 16 else c2 + 1; the call returns (diff << 2) | low and
\* takes high + 4 + nbits bits below 12, and 31 bits at 12.  Checked on every
\* carry reachable from (0,0,0), for every upcoming bit pattern.
C11_ParseCarryFunction ==
  \A tok \in Tokens :
    LET pc == parseCarry(tok, 0, carry)
        st == StatedParse(carry, tok)
    IN /\ pc.ok
       /\ pc.carry = st.carry
       /\ pc.ret = st.ret
       /\ pc.taken = st.taken
       /\ pc.pos = st.taken

\* a carry with a negative c1 and no nbits bias, reached through the
\* high < 12 branch, on which a sign-bit pattern gives a negative result and
\* the all-zero pattern takes the escape branch
C11_Witness ==
  /\ carrySteps > 0
  /\ carry[2] < 0
  /\ carry[3] >= 3
  /\ carryHigh < 12
  /\ \E tok \in Tokens :
       /\ tok[1] >= 128
       /\ parseCarry(tok, 0, carry).ret < 0
  /\ \E tok \in Tokens : parseCarry(tok, 0, carry).carry[1] > 16
  /\ parseCarry(<<0, 0, 0, 0>>, 0, carry).taken = 31

-----------------------------------------------------------------------------
(* Properties of getPred and of the stored sample (SpecOlympus) *)

\* the prediction as stated, from the neighbours L, U, LU of cell (r, c)
StatedPred(o, r, c) ==
  IF r < 2 /\ c < 2 THEN 0
  ELSE IF r < 2 THEN o[r][c - 2]
  ELSE IF c < 2 THEN o[r - 2][c]
  ELSE LET L == o[r][c - 2]
           U == o[r - 2][c]
           LU == o[r - 2][c - 2]
           dL == L - LU
           dU == U - LU
       IN IF dL # 0 /\ dU # 0 /\ ((dL < 0) # (dU < 0))
          THEN IF Abs(dL) > 32 \/ Abs(dU) > 32 THEN L + dU ELSE (L + U) \div 2
          ELSE IF Abs(dL) > Abs(dU) THEN L ELSE U

\* the cell written last
LastCell == wlog[Len(wlog)]

\* C12: getPred returns 0 / left / up at the image border and the stated
\* gradient prediction from L, U, LU elsewhere, and the cell stored is
\* (pred + diff) mod 65536.
C12_PredictionAndStore ==
  (Started /\ Len(wlog) > 0) =>
    LET r == LastCell[1]
        c == LastCell[2]
    IN /\ lastPred = StatedPred(out, r, c)
       /\ out[r][c] = (lastPred + lastDiff) % 65536
       /\ out[r][c] \in 0 .. 65535

\* a sample predicted as L + dU across a steep gradient of opposite signs
\* whose sum with diff had to be truncated
C12_Witness ==
  /\ Len(wlog) > 0
  /\ LastCell[1] >= 2 /\ LastCell[2] >= 2
  /\ LET r == LastCell[1]
         c == LastCell[2]
         dL == out[r][c - 2] - out[r - 2][c - 2]
         dU == out[r - 2][c] - out[r - 2][c - 2]
     IN /\ dL # 0 /\ dU # 0 /\ ((dL < 0) # (dU < 0))
        /\ (Abs(dL) > 32 \/ Abs(dU) > 32)
        /\ lastPred = out[r][c - 2] + dU
  /\ (lastPred + lastDiff < 0 \/ lastPred + lastDiff > 65535)

-----------------------------------------------------------------------------
(* Properties of the table number guard (SpecTable) *)

\* C13 as stated: setTable(n, src) and getTable(n) accept only 0 <= n < ntables
\* and fail with an error for every other n, n = ntables included, so that no
\* call reads or writes outside the storage of the ntables tables.
C13_OnlyRowsInStorageAccepted ==
  /\ tphase # "oob"
  /\ tlast.op \in {"setTable", "getTable"} =>
       /\ tlast.res = "ok" => RowInStorage(tlast.n, ntables)
       /\ ~RowInStorage(tlast.n, ntables) => tlast.res = "RDE"

\* setTable passed the guard with n = ntables and went on to the row past the
\* end of the storage
C13_Witness ==
  /\ tphase = "oob"
  /\ tlast.op = "setTable"
  /\ tlast.n = ntables
  /\ tlast.res = "oob"

-----------------------------------------------------------------------------
(* Properties of the strip geometry (SpecFuji) *)

RECURSIVE SumWidths(_, _)
\* the widths of strips 0 .. n-1 added up
SumWidths(h, n) == IF n = 0 THEN 0 ELSE SumWidths(h, n - 1) + width(h, n - 1)

\* a header was accepted and its strips were constructed
StripsBuilt == fphase \in {"decoding", "done", "abort"}

\* C14 as stated: for a header that passes the validity predicate every strip
\* width is positive, at most block_size and a multiple of MCU.x, the
\* assertions of FujiStrip::width and FujiStrip::numMCUs never fail, and the
\* widths sum to raw_width.
C14_StripWidthsWellFormed ==
  StripsBuilt =>
    /\ fphase # "abort"
    /\ \A n \in Strips(fhdr) :
         /\ width(fhdr, n) > 0
         /\ width(fhdr, n) <= fhdr.block_size
         /\ TruncMod(width(fhdr, n), fhdr.MCU.x) = 0
         /\ WidthAssert(fhdr, n)
         /\ NumMCUsAssert(fhdr, n)
    /\ SumWidths(fhdr, fhdr.blocks_in_row) = fhdr.raw_width

\* a header passed the validity predicate, with raw_width no multiple of
\* MCU.x, and the width assertion of FujiStrip::numMCUs failed for its last strip
C14_Witness ==
  /\ fphase = "abort"
  /\ HeaderValid(fhdr)
  /\ fhdr.raw_width % fhdr.MCU.x # 0
  /\ WidthAssert(fhdr, fhdr.blocks_in_row - 1)
  /\ ~NumMCUsAssert(fhdr, fhdr.blocks_in_row - 1)

====
